---- MODULE Spec2Model ----
(***************************************************************************)
(* goldfish: the deep-watch engine (packages/reactive/src/watchDeep.ts),    *)
(* the per-component disposer registry (packages/react/src/                 *)
(* ComponentSetup.ts), the useGlobalData hook (packages/hooks) and the      *)
(* pre-build dev watchers and dependency finder (packages/pre-build).       *)
(*                                                                          *)
(* SpecSetup    ComponentSetup: three disposer lists and their clear calls. *)
(* SpecFaults   ComponentSetup with disposers that throw, call the clear of *)
(*              their bucket, or register a disposer while it runs.         *)
(* SpecDeep     watchDeep over a small heap of objects and arrays, followed *)
(*              by writes to any property of any object (also through       *)
(*              retained references) and by the disposal of the returned    *)
(*              stop list.                                                  *)
(* SpecWatch    watchDeep and the first writes after it: the setup, with    *)
(*              and without the immediate option, on composite and on       *)
(*              non-composite roots.                                        *)
(* SpecReplace  watchDeep followed by writes that replace existing keys.    *)
(* SpecSteps    the callback of a changed key, one statement at a time.     *)
(* SpecGlobal   useGlobalData: renders and the get/set of the accessor.     *)
(* SpecDevClose dev/npmDev: the parallel tasks and close().                 *)
(* SpecHandler  the dev watcher's events and its compile streams.           *)
(* SpecFinder   findJsDependencyModules on import graphs with cycles.       *)
(***************************************************************************)
EXTENDS Integers, Sequences, FiniteSets, TLC

VARIABLES
  \* ---- ComponentSetup ----
  stopList,         \* private stopList: Function[]
  stopAutorunList,  \* private stopAutorunList: (() => void)[]
  stopWatchList,    \* private stopWatchList: (() => void)[]
  call,             \* the last method called on the ComponentSetup, with its argument
  invoked,          \* the disposers that call invoked, in call order
  \* ---- watchDeep ----
  root,             \* Watcher.obj: the value handed to watchDeep
  immediate,        \* options.immediate
  heap,             \* the objects and arrays of the program
  ws,               \* every Watch Registration made so far, by creation order
  stops,            \* the list watchDeep returned
  calls,            \* the invocations of the deep-watch callback made by the last operation
  op,               \* the last operation on the deep-watched graph
  phase,            \* "new", "watching" (watchDeep returned), "stopped" (its stop list was called)
  writes,           \* the number of writes made so far
  \* ---- watchDeep, one change callback step by step ----
  pc,               \* position in the callback of a changed key: "idle", "called", "cleared"
  cur,              \* the registration whose callback is running, with its arguments
  \* ---- useGlobalData ----
  gdata,            \* realGlobal.data
  counterState,     \* the state cell behind useState(0)
  counter,          \* the counter the accessor in hand closed over at its render
  gop,              \* the last call on the hook or its accessor
  \* ---- ComponentSetup with disposers that throw, re-enter or register ----
  disposers,        \* each registered disposer: what it does when invoked, and its bucket
  timesInvoked,     \* how often each registered disposer has been invoked
  reentered,        \* the re-entering disposers that have made their nested clear
  clears,           \* the number of clear calls made so far
  threw,            \* the last clear ended by a disposer's exception
  \* ---- gulp dev tasks and close() ----
  entry,            \* "dev", "npmDev" (createGulpConfig) or "pdsDev" (createPDSGulpConfig)
  hasBlobs,         \* customBlobs are configured
  hasTsconfig,      \* tsconfig.json exists in the project directory
  hasClosed,        \* let hasClosed
  watchers,         \* const watchers: { close(): void }[]
  open,             \* the watchers and watch processes that are running
  started,          \* the parallel tasks that have started
  closeThrew,       \* the last close() ended by an exception
  \* ---- sourceUpdateHandler ----
  variant,          \* "gulp" (createGulpConfig) or "pds" (createPDSGulpConfig)
  fileType,         \* the source type of each file by the glob patterns
  typeMap,          \* sourceType.typeMap
  streams,          \* the compile stream in flight for each file, with its callbackCounter
  hop,              \* the last event of the dev watcher or of a compile stream
  completed,        \* the paths onComplete was invoked with by the last event
  \* ---- findJsDependencyModules ----
  imports,          \* the import graph: the resolved imports of each file, in source order
  stack,            \* the run() calls in progress, innermost last
  visited,          \* Finder.visited
  parsed,           \* how often each file was read and parsed by the call in progress
  fileCache,        \* the values fileCache holds for 'findJsDependencyModules'
  returned,         \* the value the last findJsDependencyModules call returned
  fstatus,          \* "idle", "running", "returned", "threw"
  fcalls,           \* the number of findJsDependencyModules calls made so far
  called            \* the jsPath the last findJsDependencyModules call was given

setupVars == <<stopList, stopAutorunList, stopWatchList, call, invoked>>
deepVars == <<root, immediate, heap, ws, stops, calls, op, phase, writes>>
stepVars == <<pc, cur>>
globalVars == <<gdata, counterState, counter, gop>>
faultVars == <<disposers, timesInvoked, reentered, clears, threw>>
devVars == <<entry, hasBlobs, hasTsconfig, hasClosed, watchers, open, started, closeThrew>>
handlerVars == <<variant, fileType, typeMap, streams, hop, completed>>
finderVars == <<imports, stack, visited, parsed, fileCache, returned, fstatus, fcalls, called>>
buildVars == <<devVars, handlerVars, finderVars>>
exceptSetup == <<deepVars, stepVars, globalVars, faultVars, buildVars>>
exceptDeep == <<setupVars, stepVars, globalVars, faultVars, buildVars>>
exceptDeepSteps == <<setupVars, globalVars, faultVars, buildVars>>
exceptGlobal == <<setupVars, deepVars, stepVars, faultVars, buildVars>>
exceptSetupFaults == <<deepVars, stepVars, globalVars, buildVars>>
exceptDev == <<setupVars, deepVars, stepVars, globalVars, faultVars, handlerVars, finderVars>>
exceptHandler == <<setupVars, deepVars, stepVars, globalVars, faultVars, devVars, finderVars>>
exceptFinder == <<setupVars, deepVars, stepVars, globalVars, faultVars, devVars, handlerVars>>
vars == <<setupVars, deepVars, stepVars, globalVars, faultVars, buildVars>>

\* ------------------------------------------------------------------ bounds
\* Distinct disposer functions a component may register.
NFns == 2
\* Longest disposer list.
MaxList == 2

Fns == 1..NFns

\* All sequences over S of length at most n.
SeqUpTo(S, n) == UNION {[1..k -> S] : k \in 0..n}

\* ========================================================= ComponentSetup
NoCall == [method |-> "new", fns |-> <<>>]

InitSetupVars ==
  /\ stopList = <<>>
  /\ stopAutorunList = <<>>
  /\ stopWatchList = <<>>
  /\ call = NoCall
  /\ invoked = <<>>

\* list.forEach(s => s()): every entry is called, in index order.
forEachCall(list) == list

setStopList(list) ==
  /\ stopList' = list
  /\ call' = [method |-> "setStopList", fns |-> list]
  /\ invoked' = <<>>
  /\ UNCHANGED <<stopAutorunList, stopWatchList>>
  /\ UNCHANGED exceptSetup

removeAllStopList ==
  /\ invoked' = forEachCall(stopList)
  /\ stopList' = <<>>
  /\ call' = [method |-> "removeAllStopList", fns |-> <<>>]
  /\ UNCHANGED <<stopAutorunList, stopWatchList>>
  /\ UNCHANGED exceptSetup

addAutorunStopFn_replaces(fn) ==
  /\ Len(stopAutorunList) < MaxList
  /\ stopAutorunList' = <<fn>>
  /\ call' = [method |-> "addAutorunStopFn", fns |-> <<fn>>]
  /\ invoked' = <<>>
  /\ UNCHANGED <<stopList, stopWatchList>>
  /\ UNCHANGED exceptSetup

addAutorunStopFn(fn) ==
  /\ Len(stopAutorunList) < MaxList
  /\ stopAutorunList' = Append(stopAutorunList, fn)
  /\ call' = [method |-> "addAutorunStopFn", fns |-> <<fn>>]
  /\ invoked' = <<>>
  /\ UNCHANGED <<stopList, stopWatchList>>
  /\ UNCHANGED exceptSetup

stopAllAutorun ==
  /\ invoked' = forEachCall(stopAutorunList)
  /\ stopAutorunList' = <<>>
  /\ call' = [method |-> "stopAllAutorun", fns |-> <<>>]
  /\ UNCHANGED <<stopList, stopWatchList>>
  /\ UNCHANGED exceptSetup

addWatchStopFn(fn) ==
  /\ Len(stopWatchList) < MaxList
  /\ stopWatchList' = Append(stopWatchList, fn)
  /\ call' = [method |-> "addWatchStopFn", fns |-> <<fn>>]
  /\ invoked' = <<>>
  /\ UNCHANGED <<stopList, stopAutorunList>>
  /\ UNCHANGED exceptSetup

stopAllWatch_keepsList ==
  /\ invoked' = forEachCall(stopWatchList)
  /\ stopWatchList' = stopWatchList
  /\ call' = [method |-> "stopAllWatch", fns |-> <<>>]
  /\ UNCHANGED <<stopList, stopAutorunList>>
  /\ UNCHANGED exceptSetup

stopAllWatch_clearsAutorun ==
  /\ invoked' = forEachCall(stopWatchList)
  /\ stopWatchList' = <<>>
  /\ stopAutorunList' = <<>>
  /\ call' = [method |-> "stopAllWatch", fns |-> <<>>]
  /\ UNCHANGED stopList
  /\ UNCHANGED exceptSetup

stopAllWatch ==
  /\ invoked' = forEachCall(stopWatchList)
  /\ stopWatchList' = <<>>
  /\ call' = [method |-> "stopAllWatch", fns |-> <<>>]
  /\ UNCHANGED <<stopList, stopAutorunList>>
  /\ UNCHANGED exceptSetup


\* ================================================================ values
\* Objects and arrays the program allocates.
NObj == 3
\* Most keys (or indices) of one object (or array).
MaxKeys == 2
\* Distinct primitive values written.
NPrim == 2
\* Most writes of one run.
MaxWrites == 3
\* Most writes of a run that looks at the setup and the first change.
MaxFirstWrites == 1

Objs == 1..NObj
KeyName == <<"a", "b", "c", "d">>

Undefined == <<"undefined", 0>>
Null == <<"null", 0>>
Num(n) == <<"number", n>>
Ref(o) == <<"ref", o>>

Prims == {Num(n) : n \in 1..NPrim}

\* JavaScript's typeof and truthiness on the values of the model.
typeOf(v) ==
  IF v[1] = "ref" \/ v[1] = "null" THEN "object" ELSE v[1]

truthy(v) ==
  IF v[1] = "number" THEN v[2] # 0 ELSE v[1] = "ref"

\* @goldfishjs/utils isObject: the value is an object or an array.
isObject(v) == v[1] = "ref"

\* curObj[key]: a missing key reads undefined.
Get(h, o, i) ==
  IF i <= Len(h[o].fields) THEN h[o].fields[i] ELSE Undefined

\* obj[key] = v on the stored data: an existing key is overwritten, the next
\* free key (or index) is added.
Put(h, o, i, v) ==
  IF i <= Len(h[o].fields)
  THEN [h EXCEPT ![o].fields[i] = v]
  ELSE [h EXCEPT ![o].fields = Append(@, v)]

\* The key as the enumeration hands it to iterate(key): forEach's numeric
\* index for an array, for-in's string key for an object.
PathKey(h, o, i) ==
  IF h[o].kind = "array" THEN <<"index", i - 1>> ELSE <<"key", KeyName[i]>>

RECURSIVE ReachFrom(_, _, _)
\* The objects reachable from the objects of S through n or fewer references.
ReachFrom(h, S, n) ==
  IF n = 0 THEN S
  ELSE ReachFrom(h,
         S \cup {t \in Objs : \E o \in S : \E i \in 1..Len(h[o].fields) :
                                h[o].fields[i] = Ref(t)},
         n - 1)

Reach(h, o) == ReachFrom(h, {o}, NObj)

InSeq(x, s) == \E k \in 1..Len(s) : s[k] = x


\* ====================================================== the watch engine
\* The threaded state of one operation: the Watch Registrations and the
\* callback invocations made so far.
RECURSIVE iterate(_, _, _, _)
RECURSIVE iterateFrom(_, _, _, _, _, _)
RECURSIVE iterateKey(_, _, _, _, _)
RECURSIVE onChange(_, _, _, _, _)
RECURSIVE notifyFrom(_, _, _, _, _)

\* A Watch Registration on the getter () => curObj[key]: it is subscribed to
\* the Dependency Node (curObj, key) and holds the last value seen.
Registration(h, o, i, path) ==
  [obj |-> o, key |-> i, path |-> path, last |-> Get(h, o, i),
   active |-> TRUE, keyStopList |-> <<>>]

\* watch(getter, callback, options): makes the registration; with
\* options.immediate the callback fires once, synchronously, with the initial
\* value as new value and undefined as old value.
watch(h, st, o, i, path) ==
  LET id == Len(st.ws) + 1
      st1 == [st EXCEPT !.ws = Append(@, Registration(h, o, i, path))]
  IN IF immediate THEN onChange(h, st1, id, Get(h, o, i), Undefined) ELSE st1

\* The disposer watch returned: the registration stops for good; disposing
\* it again changes nothing.
stop(table, id) == [table EXCEPT ![id].active = FALSE]

\* list.forEach(stop => stop()): every disposer of list is called.
stopEach(table, list) ==
  [k \in DOMAIN table |-> IF InSeq(k, list) THEN stop(table, k)[k] ELSE table[k]]

\* callback(this.obj, [...keyPathList, key], newV, oldV): the first statement
\* of the callback handed to baseWatch for one key.
invokeCallback(st, id, newV, oldV) ==
  [st EXCEPT !.calls = Append(@, [obj |-> root, keyPathList |-> st.ws[id].path,
                                   newV |-> newV, oldV |-> oldV])]

\* The variant that calls the held disposers and leaves them in keyStopList.
disposeChildren_keepsList(st, id, oldV) ==
  IF isObject(oldV)
  THEN [st EXCEPT !.ws = stopEach(st.ws, st.ws[id].keyStopList)]
  ELSE st

\* if (isObject(oldV)): the disposers held in keyStopList are called and the
\* list is emptied.
disposeChildren(st, id, oldV) ==
  IF isObject(oldV)
  THEN [st EXCEPT !.ws = [stopEach(st.ws, st.ws[id].keyStopList)
                            EXCEPT ![id].keyStopList = <<>>]]
  ELSE st

\* if (isObject(newV)): the watches iterate makes under the new value are
\* pushed to keyStopList.
installChildren(h, st, id, newV) ==
  IF isObject(newV)
  THEN LET r == iterate(h, st, newV, st.ws[id].path)
       IN [r.st EXCEPT !.ws[id].keyStopList = @ \o r.stopList]
  ELSE st

\* The variant of the key's callback that installs no watches under the new
\* value.
onChange_installsNothing(h, st, id, newV, oldV) ==
  disposeChildren(invokeCallback(st, id, newV, oldV), id, oldV)

\* The callback handed to baseWatch for one key: its three statements in
\* source order.
onChange(h, st, id, newV, oldV) ==
  installChildren(h, disposeChildren(invokeCallback(st, id, newV, oldV), id, oldV),
                  id, newV)

iterateKey_alwaysDescends(h, st, o, i, keyPathList) ==
  LET id == Len(st.ws) + 1
      path == Append(keyPathList, PathKey(h, o, i))
      st1 == watch(h, st, o, i, path)
      r == iterate(h, st1, Get(h, o, i), path)
  IN [st |-> [r.st EXCEPT !.ws[id].keyStopList = @ \o r.stopList], stop |-> id]

\* The inner iterate(key): one watch on curObj[key] and, without immediate,
\* the descent into the current value of curObj[key].
iterateKey(h, st, o, i, keyPathList) ==
  LET id == Len(st.ws) + 1
      path == Append(keyPathList, PathKey(h, o, i))
      st1 == watch(h, st, o, i, path)
      r == iterate(h, st1, Get(h, o, i), path)
  IN IF ~immediate
     THEN [st |-> [r.st EXCEPT !.ws[id].keyStopList = @ \o r.stopList], stop |-> id]
     ELSE [st |-> st1, stop |-> id]

\* The enumeration of curObj's keys: array indices 0..length-1 in order, object
\* keys in for-in order; each watch's disposer is pushed to the level's
\* stopList (made).
iterateFrom(h, st, o, keyPathList, i, made) ==
  IF i > Len(h[o].fields) THEN [st |-> st, stopList |-> made]
  ELSE LET r == iterateKey(h, st, o, i, keyPathList)
       IN iterateFrom(h, r.st, o, keyPathList, i + 1, Append(made, r.stop))

iterate_watchesPrimitive(h, st, curObj, keyPathList) ==
  IF truthy(curObj) /\ typeOf(curObj) = "object"
  THEN iterateFrom(h, st, curObj[2], keyPathList, 1, <<>>)
  ELSE [st |-> [st EXCEPT !.ws = Append(@, [obj |-> 1, key |-> 1, path |-> keyPathList,
                                             last |-> curObj, active |-> TRUE,
                                             keyStopList |-> <<>>])],
        stopList |-> <<Len(st.ws) + 1>>]

\* Watcher.iterate(curObj, keyPathList): the disposers made at this level.
iterate(h, st, curObj, keyPathList) ==
  IF truthy(curObj) /\ typeOf(curObj) = "object"
  THEN iterateFrom(h, st, curObj[2], keyPathList, 1, <<>>)
  ELSE [st |-> st, stopList |-> <<>>]

\* write(container, key, value) has stored the value: every registration
\* subscribed to (container, key) that is not disposed re-evaluates its getter,
\* in subscription order, and calls back when the value differs from the last
\* one it saw.
notifyFrom(h, st, o, i, id) ==
  IF id > Len(st.ws) THEN st
  ELSE LET w == st.ws[id]
           newV == Get(h, o, i)
       IN IF w.active /\ w.obj = o /\ w.key = i /\ newV # w.last
          THEN notifyFrom(h,
                 onChange(h, [st EXCEPT !.ws[id].last = newV], id, newV, w.last),
                 o, i, id + 1)
          ELSE notifyFrom(h, st, o, i, id + 1)

\* ============================================================ operations
NoOp(name) == [name |-> name, obj |-> 0, key |-> 0, newV |-> Undefined, oldV |-> Undefined]

Object(fields) == [kind |-> "object", fields |-> fields]
Array(fields) == [kind |-> "array", fields |-> fields]

\* The object graphs a run starts from (object 1 is the root when the root is
\* composite).
InitShapes ==
  { <<Object(<<Ref(2)>>), Object(<<Ref(3)>>), Object(<<Num(1)>>)>>,
    <<Object(<<Ref(2), Num(1)>>), Array(<<Ref(3)>>), Object(<<Num(1)>>)>>,
    <<Array(<<Ref(2), Ref(3)>>), Object(<<Num(1)>>), Array(<<>>)>>,
    <<Object(<<Num(1)>>), Object(<<Ref(3)>>), Array(<<Num(1)>>)>>,
    <<Object(<<Ref(2), Ref(3)>>), Array(<<Ref(3), Num(2)>>), Object(<<Num(1)>>)>> }

\* The heap of a shape: the objects the shape does not name are empty objects
\* (nothing refers to them yet).
HeapOf(shape) ==
  [o \in Objs |-> IF o <= Len(shape) THEN shape[o] ELSE Object(<<>>)]

InitHeaps == {HeapOf(shape) : shape \in InitShapes}

\* The graph of the runs whose root is no object.
PlainHeap == HeapOf(<<Object(<<Ref(2)>>), Object(<<Ref(3)>>), Object(<<Num(1)>>)>>)

InitDeepVars ==
  /\ root \in {Ref(1), Num(1), Null, Undefined}
  /\ immediate \in BOOLEAN
  /\ heap \in InitHeaps
  /\ ~isObject(root) => heap = PlainHeap
  /\ ws = <<>>
  /\ stops = <<>>
  /\ calls = <<>>
  /\ op = NoOp("new")
  /\ phase = "new"
  /\ writes = 0

\* watchDeep(obj, callback, options): new Watcher(...).watch().
watchDeep ==
  /\ phase = "new"
  /\ LET r == iterate(heap, [ws |-> <<>>, calls |-> <<>>], root, <<>>)
     IN /\ ws' = r.st.ws
        /\ calls' = r.st.calls
        /\ stops' = r.stopList
  /\ op' = NoOp("watchDeep")
  /\ phase' = "watching"
  /\ UNCHANGED <<root, immediate, heap, writes>>
  /\ UNCHANGED exceptDeep

\* o[key] = v, a value-changing write to any object of the program (reached
\* from the root or through a retained reference): an existing key is replaced
\* or the next key is added.
Write(o, i, v) ==
  /\ phase # "new"
  /\ writes < MaxWrites
  /\ writes' = writes + 1
  /\ i <= Len(heap[o].fields) + 1
  /\ i <= MaxKeys
  /\ v # Get(heap, o, i)
  /\ isObject(v) => o \notin Reach(heap, v[2])
  /\ LET h == Put(heap, o, i, v)
         st == notifyFrom(h, [ws |-> ws, calls |-> <<>>], o, i, 1)
     IN /\ heap' = h
        /\ ws' = st.ws
        /\ calls' = st.calls
  /\ op' = [name |-> "write", obj |-> o, key |-> i, newV |-> v, oldV |-> Get(heap, o, i)]
  /\ UNCHANGED <<root, immediate, stops, phase>>
  /\ UNCHANGED exceptDeep

\* stops.forEach(stop => stop()) on the list watchDeep returned.
StopAll ==
  /\ phase = "watching"
  /\ ws' = stopEach(ws, stops)
  /\ calls' = <<>>
  /\ op' = NoOp("stopAll")
  /\ phase' = "stopped"
  /\ UNCHANGED <<root, immediate, heap, stops, writes>>
  /\ UNCHANGED exceptDeep

\* ------------------------------------------- the parts a specification leaves out
\* watchDeep has not been called.
NoDeep ==
  /\ root = Undefined
  /\ immediate = FALSE
  /\ heap = <<>>
  /\ ws = <<>>
  /\ stops = <<>>
  /\ calls = <<>>
  /\ op = NoOp("new")
  /\ phase = "new"
  /\ writes = 0

\* No change callback is running.
NoSteps ==
  /\ pc = "idle"
  /\ cur = [id |-> 0, newV |-> Undefined, oldV |-> Undefined]

\* No component has called useGlobalData.
NoGlobal ==
  /\ gdata = <<>>
  /\ counterState = 0
  /\ counter = 0
  /\ gop = [name |-> "new", key |-> 0, value |-> 0, setCounter |-> <<>>]

\* Every registered disposer returns normally.
NoFaults ==
  /\ disposers = <<>>
  /\ timesInvoked = <<>>
  /\ reentered = {}
  /\ clears = 0
  /\ threw = FALSE

\* No gulp configuration has been created.
NoDev ==
  /\ entry = "none"
  /\ hasBlobs = FALSE
  /\ hasTsconfig = FALSE
  /\ hasClosed = FALSE
  /\ watchers = <<>>
  /\ open = {}
  /\ started = {}
  /\ closeThrew = FALSE

NoHandler ==
  /\ variant = "none"
  /\ fileType = <<>>
  /\ typeMap = <<>>
  /\ streams = <<>>
  /\ hop = [name |-> "new", path |-> 0]
  /\ completed = <<>>

NoFinder ==
  /\ imports = <<>>
  /\ stack = <<>>
  /\ visited = {}
  /\ parsed = <<>>
  /\ fileCache = <<>>
  /\ returned = <<>>
  /\ fstatus = "idle"
  /\ fcalls = 0
  /\ called = ""

NoBuild == NoDev /\ NoHandler /\ NoFinder

\* ======================================================== specifications
InitSetup ==
  /\ InitSetupVars
  /\ root = Undefined
  /\ immediate = FALSE
  /\ heap = <<>>
  /\ ws = <<>>
  /\ stops = <<>>
  /\ calls = <<>>
  /\ op = NoOp("new")
  /\ phase = "new"
  /\ writes = 0
  /\ NoSteps /\ NoGlobal /\ NoFaults /\ NoBuild

NextSetup ==
  \/ \E list \in SeqUpTo(Fns, MaxList) : setStopList(list)
  \/ removeAllStopList
  \/ \E fn \in Fns : addAutorunStopFn(fn)
  \/ stopAllAutorun
  \/ \E fn \in Fns : addWatchStopFn(fn)
  \/ stopAllWatch

SpecSetup == InitSetup /\ [][NextSetup]_vars

InitDeep ==
  /\ InitDeepVars
  /\ InitSetupVars
  /\ NoSteps /\ NoGlobal /\ NoFaults /\ NoBuild

NextDeep ==
  \/ watchDeep
  \/ \E o \in Objs : \E i \in 1..MaxKeys : \E v \in Prims \cup {Ref(t) : t \in Objs} :
       Write(o, i, v)
  \/ StopAll

SpecDeep == InitDeep /\ [][NextDeep]_vars


\* watchDeep and the first writes after it.
FirstWrite(o, i, v) ==
  /\ writes < MaxFirstWrites
  /\ Write(o, i, v)

NextWatch ==
  \/ watchDeep
  \/ \E o \in Objs : \E i \in 1..MaxKeys : \E v \in Prims \cup {Ref(t) : t \in Objs} :
       FirstWrite(o, i, v)
  \/ StopAll

SpecWatch == InitDeep /\ [][NextWatch]_vars

\* ================================================================ claims
Ids == DOMAIN ws

RECURSIVE DescFrom(_, _, _)
DescFrom(table, S, n) ==
  IF n = 0 THEN S
  ELSE DescFrom(table,
         S \cup {d \in DOMAIN table : \E k \in S : InSeq(d, table[k].keyStopList)},
         n - 1)

\* The registrations made under registration id, at every depth: its children
\* are those its keyStopList holds, and so on below them.
Descendants(table, id) ==
  DescFrom(table, {d \in DOMAIN table : InSeq(d, table[id].keyStopList)}, NObj)

RECURSIVE PathsBetween(_, _, _)
\* The key paths that lead from value v to object o.
PathsBetween(h, v, o) ==
  IF ~isObject(v) THEN {}
  ELSE IF v[2] = o THEN {<<>>}
  ELSE UNION {{<<PathKey(h, v[2], i)>> \o p : p \in PathsBetween(h, h[v[2]].fields[i], o)} :
                i \in 1..Len(h[v[2]].fields)}

\* The key paths that lead from the root to property i of object o.
PropPaths(h, o, i) == {Append(p, PathKey(h, o, i)) : p \in PathsBetween(h, root, o)}

\* How often the last operation invoked the callback with key path p.
CallsFor(p) == Cardinality({k \in 1..Len(calls) : calls[k].keyPathList = p})

\* C1: when a write replaces the value of a watched key whose old value is an
\* object or array, every watch installed under that key, at every depth, is
\* disposed by the write.
C1_ReplacementDisposesAllDescendants ==
  [][\A id \in Ids :
       (/\ writes' = writes + 1
        /\ ws[id].active
        /\ ws[id].obj = op'.obj
        /\ ws[id].key = op'.key
        /\ isObject(ws[id].last))
       => \A d \in Descendants(ws, id) : ~ws'[d].active]_vars

\* C2: once every disposer of the list watchDeep returned has been invoked, no
\* write to any property, at any depth, invokes the callback.
C2_StoppedListSilencesAllWrites ==
  phase = "stopped" => calls = <<>>

\* C3: a value-changing write to a property reachable from the root by exactly
\* one key path never invokes the callback twice for that key path.
C3_NeverTwiceForOneWrite ==
  (op.name = "write" /\ phase = "watching")
  => \A p \in PropPaths(heap, op.obj, op.key) :
       Cardinality(PropPaths(heap, op.obj, op.key)) = 1 => CallsFor(p) <= 1

\* C4: after watchDeep and any writes, key additions included, every live
\* watched key whose current value is an object or array has an active child
\* watch for every key or index of that value.
C4_ChildrenCoverEveryKey ==
  phase # "new"
  => \A id \in Ids :
       (ws[id].active /\ isObject(Get(heap, ws[id].obj, ws[id].key)))
       => LET child == Get(heap, ws[id].obj, ws[id].key)[2]
          IN \A j \in 1..Len(heap[child].fields) :
               \E c \in Ids : /\ InSeq(c, ws[id].keyStopList)
                              /\ ws[c].active
                              /\ ws[c].obj = child
                              /\ ws[c].key = j

\* C5 (as claimed): with immediate, right after watchDeep returns no watch
\* exists for a key path of length 2 or more.
C5_NoNestedWatchAfterImmediateSetup ==
  (immediate /\ op.name = "watchDeep") => \A id \in Ids : Len(ws[id].path) < 2

\* C5 (amended): with immediate, right after watchDeep returns every watched
\* key whose value is an object or array holds exactly one active child watch
\* per key or index of that value, in enumeration order, and every other watched
\* key holds none; each watch is the root's or the child of exactly one key.
C5_ImmediateSetupInstallsChildrenOnce ==
  (immediate /\ op.name = "watchDeep")
  => /\ \A id \in Ids :
          LET v == Get(heap, ws[id].obj, ws[id].key)
              kids == ws[id].keyStopList
          IN /\ ws[id].active
             /\ Len(kids) = (IF isObject(v) THEN Len(heap[v[2]].fields) ELSE 0)
             /\ \A j \in 1..Len(kids) :
                  /\ ws[kids[j]].obj = v[2]
                  /\ ws[kids[j]].key = j
                  /\ ws[kids[j]].path = Append(ws[id].path, PathKey(heap, v[2], j))
     /\ \A c \in Ids :
          Cardinality({k \in 1..Len(stops) : stops[k] = c})
          + Cardinality({<<id, k>> \in Ids \X (1..MaxKeys) :
                           k <= Len(ws[id].keyStopList) /\ ws[id].keyStopList[k] = c})
          = 1

C5_Witness ==
  /\ immediate
  /\ op.name = "watchDeep"
  /\ \E id \in Ids : Len(ws[id].path) = 3

\* C6: with immediate, watchDeep invokes the callback exactly once for each
\* top-level key k of the root, with (root, [k], root[k], undefined), and not
\* more than once for any key path.
C6_ImmediateFiresOncePerKeyPath ==
  (immediate /\ op.name = "watchDeep" /\ isObject(root))
  => /\ \A i \in 1..Len(heap[root[2]].fields) :
          /\ CallsFor(<<PathKey(heap, root[2], i)>>) = 1
          /\ \E k \in 1..Len(calls) :
               calls[k] = [obj |-> root, keyPathList |-> <<PathKey(heap, root[2], i)>>,
                           newV |-> Get(heap, root[2], i), oldV |-> Undefined]
     /\ \A k \in 1..Len(calls) : CallsFor(calls[k].keyPathList) = 1

C6_Witness ==
  /\ immediate
  /\ op.name = "watchDeep"
  /\ Len(heap[1].fields) = 2
  /\ Len(calls) > 2

\* C10: watchDeep on a root that is no object or array (a primitive, null or
\* undefined) returns an empty list, installs no watch and never invokes the
\* callback; iterate on a key whose value is no object or array returns an
\* empty list, so that key holds no child watch.
C10_NonCompositeInstallsNothing ==
  /\ (~isObject(root) /\ phase # "new") => (stops = <<>> /\ ws = <<>> /\ calls = <<>>)
  /\ op.name = "watchDeep"
     => \A id \in Ids :
          ~isObject(Get(heap, ws[id].obj, ws[id].key)) => ws[id].keyStopList = <<>>

C10_Witness ==
  /\ root = Null
  /\ op.name = "write"
  /\ stops = <<>>


\* s is a prefix of t: t keeps every entry of s, in place.
IsPrefix(s, t) == Len(s) <= Len(t) /\ \A k \in 1..Len(s) : t[k] = s[k]

Registering == {"setStopList", "addAutorunStopFn", "addWatchStopFn"}

\* C7: each clear operation invokes every disposer of its bucket exactly once,
\* in insertion order, and then empties the bucket (so a second clear invokes
\* nothing); an operation that registers invokes nothing.
C7_ClearInvokesBucketInOrderThenEmpties ==
  [][/\ call'.method = "removeAllStopList" => (invoked' = stopList /\ stopList' = <<>>)
     /\ call'.method = "stopAllAutorun"
          => (invoked' = stopAutorunList /\ stopAutorunList' = <<>>)
     /\ call'.method = "stopAllWatch" => (invoked' = stopWatchList /\ stopWatchList' = <<>>)
     /\ call'.method \in Registering => invoked' = <<>>]_vars

C7_Witness ==
  /\ call.method = "stopAllWatch"
  /\ invoked = <<2, 1>>
  /\ stopWatchList = <<>>

\* C8: clearing one bucket invokes the disposers of that bucket only and leaves
\* the other two buckets as they were.
C8_ClearLeavesOtherBuckets ==
  [][/\ call'.method = "stopAllWatch"
          => /\ invoked' = stopWatchList
             /\ stopAutorunList' = stopAutorunList
             /\ stopList' = stopList
     /\ call'.method = "stopAllAutorun"
          => /\ invoked' = stopAutorunList
             /\ stopWatchList' = stopWatchList
             /\ stopList' = stopList
     /\ call'.method = "removeAllStopList"
          => /\ invoked' = stopList
             /\ stopWatchList' = stopWatchList
             /\ stopAutorunList' = stopAutorunList]_vars

C8_Witness ==
  /\ call.method = "stopAllWatch"
  /\ Len(invoked) = 2
  /\ Len(stopAutorunList) = 2
  /\ Len(stopList) = 1

\* C9 (as claimed): no registration removes a disposer registered before it:
\* each bucket, the general one included, keeps its entries until it is cleared.
C9_RegistrationKeepsEarlierDisposers ==
  [][call'.method \in Registering
       => /\ IsPrefix(stopList, stopList')
          /\ IsPrefix(stopAutorunList, stopAutorunList')
          /\ IsPrefix(stopWatchList, stopWatchList')]_vars

\* C9 (amended): addAutorunStopFn and addWatchStopFn append to their bucket;
\* setStopList replaces the general bucket by the list it is given, and
\* removeAllStopList invokes the disposers of the list the bucket then holds.
C9_AddAppendsSetReplaces ==
  [][/\ call'.method = "addAutorunStopFn"
          => stopAutorunList' = stopAutorunList \o call'.fns
     /\ call'.method = "addWatchStopFn"
          => stopWatchList' = stopWatchList \o call'.fns
     /\ call'.method = "setStopList" => stopList' = call'.fns
     /\ call'.method = "removeAllStopList" => invoked' = stopList]_vars

C9_Witness ==
  /\ call.method = "addAutorunStopFn"
  /\ Len(stopAutorunList) = 2
  /\ Len(stopList) = 2

\* C11: every invocation of the callback that a write to property k of the
\* composite located at key path P causes passes the root object, the new and
\* the previous value of the property, and a key path P \o <<k>> on which the
\* written property lies, k being an index under an array and a key name under
\* an object.
C11_CallbackLocatesTheChange ==
  (op.name = "write" /\ phase = "watching")
  => \A n \in 1..Len(calls) :
       calls[n].oldV # Undefined
       => /\ calls[n].obj = root
          /\ calls[n].newV = op.newV
          /\ calls[n].oldV = op.oldV
          /\ PropPaths(heap, op.obj, op.key) # {}
             => calls[n].keyPathList \in PropPaths(heap, op.obj, op.key)

\* =========================================================== useGlobalData
\* Keys of the global data store the component reads and writes.
NKeys == 2
\* Distinct values written under a key; 0 stands for the value a key starts with.
NVals == 2
\* Largest counter value followed.
MaxCounter == 3

GKeys == 1..NKeys
GVals == 0..NVals

\* setCounter(v) of const [counter, setCounter] = useState(0): the state cell
\* takes the value v.
setCounter(cell, v) == v

GlobalOp(name, key, value, sets) ==
  [name |-> name, key |-> key, value |-> value, setCounter |-> sets]

\* The first render of the component: useGlobalData() has returned its accessor.
InitGlobal ==
  /\ gdata \in [GKeys -> GVals]
  /\ counterState = 0
  /\ counter = 0
  /\ gop = GlobalOp("useGlobalData", 0, 0, <<>>)
  /\ InitSetupVars
  /\ NoDeep /\ NoSteps /\ NoFaults /\ NoBuild

\* A later render: useGlobalData() reads the state cell and returns a new
\* accessor, which the component takes in hand.
useGlobalData ==
  /\ counter' = counterState
  /\ gop' = GlobalOp("useGlobalData", 0, 0, <<>>)
  /\ UNCHANGED <<gdata, counterState>>
  /\ UNCHANGED exceptGlobal

\* The variant of set without the comparison of line 14.
set_unguarded(key, value) ==
  /\ counter < MaxCounter
  /\ gdata' = [gdata EXCEPT ![key] = value]
  /\ counterState' = setCounter(counterState, counter + 1)
  /\ gop' = GlobalOp("set", key, value, <<counter + 1>>)
  /\ UNCHANGED counter
  /\ UNCHANGED exceptGlobal

\* get(key) of the accessor in hand.
get(key) ==
  /\ gop' = GlobalOp("get", key, gdata[key], <<>>)
  /\ UNCHANGED <<gdata, counterState, counter>>
  /\ UNCHANGED exceptGlobal

\* set(key, value) of the accessor in hand: counter is the value its render
\* read, whatever the state cell holds by now.
set(key, value) ==
  /\ counter < MaxCounter
  /\ IF gdata[key] # value
     THEN /\ gdata' = [gdata EXCEPT ![key] = value]
          /\ counterState' = setCounter(counterState, counter + 1)
          /\ gop' = GlobalOp("set", key, value, <<counter + 1>>)
     ELSE /\ gop' = GlobalOp("set", key, value, <<>>)
          /\ UNCHANGED <<gdata, counterState>>
  /\ UNCHANGED counter
  /\ UNCHANGED exceptGlobal

NextGlobal ==
  \/ useGlobalData
  \/ \E key \in GKeys : get(key)
  \/ \E key \in GKeys : \E value \in GVals : set(key, value)

SpecGlobal == InitGlobal /\ [][NextGlobal]_vars

\* C12: set(key, value) with the value the key already holds changes nothing:
\* the store is not written and setCounter is not called.
C12_SetOfSameValueChangesNothing ==
  [][(gop'.name = "set" /\ gop'.value = gdata[gop'.key])
     => /\ gdata' = gdata
        /\ counterState' = counterState
        /\ gop'.setCounter = <<>>]_vars

C12_Witness ==
  /\ gop.name = "set"
  /\ gop.setCounter = <<>>
  /\ gdata[gop.key] = gop.value
  /\ gop.value # 0
  /\ counterState > 0

\* C13: every set call that changes the stored value stores the new value and
\* bumps the re-render counter: the state cell after the call differs from the
\* state cell before it, also for several calls through one accessor.
C13_EveryChangingSetBumpsCounter ==
  [][(gop'.name = "set" /\ gop'.value # gdata[gop'.key])
     => /\ gdata'[gop'.key] = gop'.value
        /\ counterState' # counterState]_vars

\* ================================================= replacement of values
\* o[key] = v on a key o already has: the value is replaced, no key is added.
Replace(o, i, v) ==
  /\ i <= Len(heap[o].fields)
  /\ Write(o, i, v)

NextReplace ==
  \/ watchDeep
  \/ \E o \in Objs : \E i \in 1..MaxKeys : \E v \in Prims \cup {Ref(t) : t \in Objs} :
       Replace(o, i, v)
  \/ StopAll

\* watchDeep followed by writes that replace the values of existing keys.
SpecReplace == InitDeep /\ [][NextReplace]_vars

\* C14: while the watch is live and only values of existing keys have been
\* replaced, a value-changing write to an existing property reachable from the
\* root invokes the callback at least once with each key path of that property.
C14_NoMissedNotificationUnderReplacement ==
  (op.name = "write" /\ phase = "watching")
  => \A p \in PropPaths(heap, op.obj, op.key) : CallsFor(p) >= 1

\* Object 3 has been placed under the root's first key by a replacement, and a
\* later write to its property has been notified with the new key path.
C14_Witness ==
  /\ phase = "watching"
  /\ op.name = "write"
  /\ op.obj = 3
  /\ writes >= 2
  /\ heap[1].fields[1] = Ref(3)
  /\ CallsFor(<<PathKey(heap, 1, 1), PathKey(heap, 3, op.key)>>) >= 1

\* ============================================ one change, step by step
NoCur == [id |-> 0, newV |-> Undefined, oldV |-> Undefined]

\* The first registration from id `from` on that is subscribed to (o, i), not
\* disposed, and whose getter no longer yields the value it saw last; 0 if
\* there is none.
nextChanged(table, h, o, i, from) ==
  LET S == {id \in from..Len(table) :
              /\ table[id].active
              /\ table[id].obj = o
              /\ table[id].key = i
              /\ Get(h, o, i) # table[id].last}
  IN IF S = {} THEN 0 ELSE CHOOSE id \in S : \A e \in S : id <= e

\* o[key] = v: the value is stored and the first subscribed registration
\* re-evaluates its getter; its callback is about to run.
StartWrite(o, i, v) ==
  /\ pc = "idle"
  /\ phase # "new"
  /\ writes < MaxFirstWrites
  /\ writes' = writes + 1
  /\ i <= Len(heap[o].fields) + 1
  /\ i <= MaxKeys
  /\ v # Get(heap, o, i)
  /\ isObject(v) => o \notin Reach(heap, v[2])
  /\ heap' = Put(heap, o, i, v)
  /\ op' = [name |-> "write", obj |-> o, key |-> i, newV |-> v, oldV |-> Get(heap, o, i)]
  /\ calls' = <<>>
  /\ LET id == nextChanged(ws, Put(heap, o, i, v), o, i, 1)
     IN IF id = 0
        THEN /\ pc' = "idle"
             /\ cur' = NoCur
             /\ ws' = ws
        ELSE /\ pc' = "changed"
             /\ cur' = [id |-> id, newV |-> v, oldV |-> ws[id].last]
             /\ ws' = [ws EXCEPT ![id].last = v]
  /\ UNCHANGED <<root, immediate, stops, phase>>
  /\ UNCHANGED exceptDeepSteps

\* Line 39: the outer callback is invoked.
Callback ==
  /\ pc = "changed"
  /\ calls' = invokeCallback([ws |-> ws, calls |-> calls], cur.id, cur.newV, cur.oldV).calls
  /\ pc' = "called"
  /\ UNCHANGED <<root, immediate, heap, ws, stops, op, phase, writes, cur>>
  /\ UNCHANGED exceptDeepSteps

\* Lines 42-45: the child watches held for the key are disposed.
DisposeChildren ==
  /\ pc = "called"
  /\ ws' = disposeChildren([ws |-> ws, calls |-> calls], cur.id, cur.oldV).ws
  /\ pc' = "cleared"
  /\ UNCHANGED <<root, immediate, heap, stops, calls, op, phase, writes, cur>>
  /\ UNCHANGED exceptDeepSteps

\* Lines 48-50: the child watches of the new value are made; the callback
\* returns and the next subscribed registration, if any, re-evaluates.
InstallChildren ==
  /\ pc = "cleared"
  /\ LET st == installChildren(heap, [ws |-> ws, calls |-> calls], cur.id, cur.newV)
         id == nextChanged(st.ws, heap, op.obj, op.key, cur.id + 1)
     IN /\ calls' = st.calls
        /\ IF id = 0
           THEN /\ pc' = "idle"
                /\ cur' = cur
                /\ ws' = st.ws
           ELSE /\ pc' = "changed"
                /\ cur' = [id |-> id, newV |-> cur.newV, oldV |-> st.ws[id].last]
                /\ ws' = [st.ws EXCEPT ![id].last = cur.newV]
  /\ UNCHANGED <<root, immediate, heap, stops, op, phase, writes>>
  /\ UNCHANGED exceptDeepSteps

\* stops.forEach(stop => stop()), between two writes.
StopAllIdle ==
  /\ pc = "idle"
  /\ StopAll

NextSteps ==
  \/ watchDeep
  \/ \E o \in Objs : \E i \in 1..MaxKeys : \E v \in Prims \cup {Ref(t) : t \in Objs} :
       StartWrite(o, i, v)
  \/ Callback
  \/ DisposeChildren
  \/ InstallChildren
  \/ StopAllIdle

\* watchDeep and the first writes after it, each change callback taken one
\* statement at a time.
SpecSteps == InitDeep /\ [][NextSteps]_vars

\* The registrations a key holds as its children.
Held(table, id) == {table[id].keyStopList[k] : k \in 1..Len(table[id].keyStopList)}

\* C15: on a change of a watched key the outer callback runs first, with the
\* children of the old value still held; then, if the old value is composite,
\* every held child is disposed and the list is emptied; only then, if the new
\* value is composite, the children of the new value are made. The children
\* one key holds never watch two different values.
C15_CallbackThenDisposeThenInstall ==
  [][/\ pc' = "called"
        => /\ pc = "changed"
           /\ calls' = Append(calls, [obj |-> root, keyPathList |-> ws[cur.id].path,
                                      newV |-> cur.newV, oldV |-> cur.oldV])
           /\ ws' = ws
           /\ \A d \in Held(ws, cur.id) : ws[d].active /\ Ref(ws[d].obj) = cur.oldV
     /\ pc' = "cleared"
        => /\ pc = "called"
           /\ calls' = calls
           /\ Len(ws') = Len(ws)
           /\ Held(ws', cur.id) = {}
           /\ isObject(cur.oldV) => \A d \in Held(ws, cur.id) : ~ws'[d].active
     /\ pc = "cleared"
        => /\ pc' \in {"idle", "changed"}
           /\ \A d \in Held(ws', cur.id) : d > Len(ws) /\ Ref(ws'[d].obj) = cur.newV
           /\ isObject(cur.newV)
              => Cardinality(Held(ws', cur.id)) = Len(heap[cur.newV[2]].fields)
           /\ ~isObject(cur.newV) => Held(ws', cur.id) = {}
     /\ \A id \in DOMAIN ws' : \A c, d \in Held(ws', id) : ws'[c].obj = ws'[d].obj]_vars

\* A composite value has been replaced by a composite value and the callback
\* of the key has returned.
C15_Witness ==
  /\ pc = "idle"
  /\ op.name = "write"
  /\ cur.id # 0
  /\ isObject(cur.oldV)
  /\ isObject(cur.newV)
  /\ Held(ws, cur.id) # {}
  /\ \E d \in DOMAIN ws : ~ws[d].active

\* ================================== ComponentSetup, disposers that misbehave
\* Disposers registered in one run.
MaxRegs == 3
\* Clear calls made in one run.
MaxClears == 2

\* What a disposer does when it is invoked: it returns, it throws, it calls the
\* clear of its own bucket (once: it guards itself against recursion), or it
\* registers one more disposer in its own bucket.
Does == {"returns", "throws", "reenters", "registers"}

\* The state one clear call threads through its forEach: the bucket's field,
\* the disposers, and what was invoked.
Bucket(list) ==
  [list |-> list, disposers |-> disposers, times |-> timesInvoked,
   reentered |-> reentered, invoked |-> <<>>, threw |-> FALSE]

\* this.<bucket>.push(fn) with a disposer that was not registered before.
push(b, does, name) ==
  [b EXCEPT !.disposers = Append(@, [does |-> does, bucket |-> name]),
            !.times = Append(@, 0),
            !.list = Append(@, Len(b.disposers) + 1)]

RECURSIVE clearList(_)
RECURSIVE forEachFn(_, _, _)

\* list.forEach(fn => fn()) from index k on, over the array the field held
\* when forEach began (elements pushed meanwhile are not visited): an
\* exception leaves forEach at once.
forEachFn(b, array, k) ==
  IF k > Len(array) THEN b
  ELSE LET fn == array[k]
           does == b.disposers[fn].does
           b1 == [b EXCEPT !.times[fn] = @ + 1, !.invoked = Append(@, fn)]
       IN CASE does = "returns" -> forEachFn(b1, array, k + 1)
            [] does = "throws" -> [b1 EXCEPT !.threw = TRUE]
            [] does = "reenters" ->
                 IF fn \in b1.reentered THEN forEachFn(b1, array, k + 1)
                 ELSE LET b2 == clearList([b1 EXCEPT !.reentered = @ \cup {fn}])
                      IN IF b2.threw THEN b2 ELSE forEachFn(b2, array, k + 1)
            [] does = "registers" ->
                 IF Len(b1.disposers) < MaxRegs
                 THEN forEachFn(push(b1, "returns", b1.disposers[fn].bucket), array, k + 1)
                 ELSE forEachFn(b1, array, k + 1)

\* The body of removeAllStopList, stopAllAutorun and stopAllWatch: forEach over
\* the field, then the field is assigned [] (not reached after an exception).
clearList(b) ==
  LET r == forEachFn(b, b.list, 1)
  IN IF r.threw THEN r ELSE [r EXCEPT !.list = <<>>]

InitFaults ==
  /\ InitSetupVars
  /\ disposers = <<>>
  /\ timesInvoked = <<>>
  /\ reentered = {}
  /\ clears = 0
  /\ threw = FALSE
  /\ NoDeep /\ NoSteps /\ NoGlobal /\ NoBuild

\* What a clear call leaves behind, apart from its own field.
Cleared(r, method) ==
  /\ clears < MaxClears
  /\ clears' = clears + 1
  /\ disposers' = r.disposers
  /\ timesInvoked' = r.times
  /\ reentered' = r.reentered
  /\ invoked' = r.invoked
  /\ threw' = r.threw
  /\ call' = [method |-> method, fns |-> <<>>]
  /\ UNCHANGED exceptSetupFaults

Registered(r, method) ==
  /\ disposers' = r.disposers
  /\ timesInvoked' = r.times
  /\ invoked' = <<>>
  /\ threw' = FALSE
  /\ call' = [method |-> method, fns |-> <<Len(r.disposers)>>]
  /\ UNCHANGED <<reentered, clears>>
  /\ UNCHANGED exceptSetupFaults

\* setStopList([fn]) with a new disposer.
setStopListOf(does) ==
  /\ Len(disposers) < MaxRegs
  /\ LET r == push(Bucket(<<>>), does, "stop")
     IN stopList' = r.list /\ Registered(r, "setStopList")
  /\ UNCHANGED <<stopAutorunList, stopWatchList>>

removeAllStopListOf ==
  /\ LET r == clearList(Bucket(stopList))
     IN stopList' = r.list /\ Cleared(r, "removeAllStopList")
  /\ UNCHANGED <<stopAutorunList, stopWatchList>>

addAutorunStopFnOf(does) ==
  /\ Len(disposers) < MaxRegs
  /\ LET r == push(Bucket(stopAutorunList), does, "autorun")
     IN stopAutorunList' = r.list /\ Registered(r, "addAutorunStopFn")
  /\ UNCHANGED <<stopList, stopWatchList>>

stopAllAutorunOf ==
  /\ LET r == clearList(Bucket(stopAutorunList))
     IN stopAutorunList' = r.list /\ Cleared(r, "stopAllAutorun")
  /\ UNCHANGED <<stopList, stopWatchList>>

addWatchStopFnOf(does) ==
  /\ Len(disposers) < MaxRegs
  /\ LET r == push(Bucket(stopWatchList), does, "watch")
     IN stopWatchList' = r.list /\ Registered(r, "addWatchStopFn")
  /\ UNCHANGED <<stopList, stopAutorunList>>

stopAllWatchOf ==
  /\ LET r == clearList(Bucket(stopWatchList))
     IN stopWatchList' = r.list /\ Cleared(r, "stopAllWatch")
  /\ UNCHANGED <<stopList, stopAutorunList>>

NextFaults ==
  \/ \E does \in Does : setStopListOf(does)
  \/ removeAllStopListOf
  \/ \E does \in Does : addAutorunStopFnOf(does)
  \/ stopAllAutorunOf
  \/ \E does \in Does : addWatchStopFnOf(does)
  \/ stopAllWatchOf

\* ComponentSetup with disposers that throw, call the clear of their bucket
\* or register a disposer while the clear runs.
SpecFaults == InitFaults /\ [][NextFaults]_vars

\* C16: across registrations and clear calls every registered disposer is
\* invoked at most once, also when a disposer throws during a clear or calls
\* the clear of its own bucket.
C16_DisposerInvokedAtMostOnce ==
  \A fn \in DOMAIN timesInvoked : timesInvoked[fn] <= 1

\* C17: a disposer passed to addWatchStopFn or addAutorunStopFn never leaves
\* its bucket without having been invoked, also when it was registered from
\* inside a disposer while the clear of the bucket was running.
C17_NoDisposerDropped ==
  \A fn \in DOMAIN disposers :
    \/ disposers[fn].bucket = "stop"
    \/ InSeq(fn, stopAutorunList)
    \/ InSeq(fn, stopWatchList)
    \/ timesInvoked[fn] >= 1

\* ===================================================== gulp dev and close()
\* The functions that return { task, close }: dev and npmDev of
\* createGulpConfig, dev of createPDSGulpConfig.
Entries == {"dev", "npmDev", "pdsDev"}

\* The functions handed to gulp.parallel, in argument order: parallel starts
\* them one after the other in that order.
TaskList(e) ==
  IF e = "npmDev" THEN <<"sourceCode", "compileDeclarations">>
  ELSE <<"sourceCode", "customBlobs", "compileDeclarations">>

Tasks(e) == {TaskList(e)[k] : k \in 1..Len(TaskList(e))}

InitDev ==
  /\ entry \in Entries
  /\ hasBlobs \in BOOLEAN
  /\ hasTsconfig \in BOOLEAN
  /\ hasClosed = FALSE
  /\ watchers = <<>>
  /\ open = {}
  /\ started = {}
  /\ closeThrew = FALSE
  /\ InitSetupVars
  /\ NoDeep /\ NoSteps /\ NoGlobal /\ NoFaults /\ NoHandler /\ NoFinder

\* compileDTS({ watch: true }): without a tsconfig.json it reports the error
\* and returns undefined; otherwise the tsc watch (a TscWatchClient, or the
\* tsc --watch process of the PDS configuration) is started.
compileDTS(running) ==
  IF hasTsconfig THEN running \cup {"tsc"} ELSE running

\* A dev watcher made by createDevWatcherTask or gulp.watch: it is pushed to
\* watchers, or closed at once when close() has been called.
Made(name, running) ==
  /\ watchers' = IF hasClosed THEN watchers ELSE Append(watchers, name)
  /\ open' = IF hasClosed THEN running ELSE running \cup {name}

Started(task) ==
  /\ Cardinality(started) < Len(TaskList(entry))
  /\ task = TaskList(entry)[Cardinality(started) + 1]
  /\ started' = started \cup {task}
  /\ UNCHANGED <<entry, hasBlobs, hasTsconfig, hasClosed, closeThrew>>
  /\ UNCHANGED exceptDev

sourceCode ==
  /\ Started("sourceCode")
  /\ Made("sourceCode", open)

customBlobs ==
  /\ entry # "npmDev"
  /\ Started("customBlobs")
  /\ IF hasBlobs THEN Made("customBlobs", open) ELSE UNCHANGED <<watchers, open>>

\* compileDeclarations of dev: return compileDTS({ watch: true }).
compileDeclarationsDev ==
  /\ entry = "dev"
  /\ Started("compileDeclarations")
  /\ open' = compileDTS(open)
  /\ UNCHANGED watchers

\* compileDeclarations of npmDev: the tsc watch is killed by an entry of
\* watchers, or at once when close() has been called.
compileDeclarationsNpm ==
  /\ entry = "npmDev"
  /\ Started("compileDeclarations")
  /\ IF hasClosed
     THEN open' = open /\ watchers' = watchers
     ELSE open' = compileDTS(open) /\ watchers' = Append(watchers, "tsc")

\* compileDeclarations of the PDS dev: a watcher on the emitted .d.ts files,
\* and compileDTS({ watch: true }) whose result is not kept.
compileDeclarationsPDS ==
  /\ entry = "pdsDev"
  /\ Started("compileDeclarations")
  /\ Made("dts", compileDTS(open))

RECURSIVE closeFrom(_, _)
\* watchers.forEach(watcher => watcher.close()) from index k on: the entry of
\* npmDev calls watcher.kill() on what compileDTS returned, which throws when
\* that is undefined.
closeFrom(k, running) ==
  IF k > Len(watchers) THEN [open |-> running, threw |-> FALSE]
  ELSE IF watchers[k] = "tsc" /\ ~hasTsconfig THEN [open |-> running, threw |-> TRUE]
  ELSE closeFrom(k + 1, running \ {watchers[k]})

close ==
  /\ entry \in Entries
  /\ hasClosed' = TRUE
  /\ open' = closeFrom(1, open).open
  /\ closeThrew' = closeFrom(1, open).threw
  /\ UNCHANGED <<entry, hasBlobs, hasTsconfig, watchers, started>>
  /\ UNCHANGED exceptDev

NextDev ==
  \/ sourceCode
  \/ customBlobs
  \/ compileDeclarationsDev
  \/ compileDeclarationsNpm
  \/ compileDeclarationsPDS
  \/ close

\* The parallel tasks of one dev/npmDev call start in turn, and close() is
\* called at any moment before, between or after them.
SpecDevClose == InitDev /\ [][NextDev]_vars

\* C18: once close() has been called and every parallel task has started, no
\* watcher the tasks started is still open, the tsc watch included.
C18_NothingOpenAfterClose ==
  (hasClosed /\ started = Tasks(entry)) => open = {}

\* ===================================================== sourceUpdateHandler
\* Files the dev watcher reports events for.
NPaths == 2

Paths == 1..NPaths
SourceTypes == {"ts", "less", "js", "copy"}

\* micromatch of the path against sourceFiles.ts, .less, .js and .copy in
\* turn: the first list that matches names the type; fileType holds the
\* outcome for each path, "none" when no list matches.
InitHandler ==
  /\ variant \in {"gulp", "pds"}
  /\ fileType \in [Paths -> SourceTypes \cup {"none"}]
  /\ typeMap = [p \in Paths |-> "unset"]
  /\ streams = [p \in Paths |-> <<>>]
  /\ hop = [name |-> "watch", path |-> 0]
  /\ completed = <<>>
  /\ InitSetupVars
  /\ NoDeep /\ NoSteps /\ NoGlobal /\ NoFaults /\ NoDev /\ NoFinder

\* sourceType.check(path, sourceFiles): the cached type, or the matched type,
\* which is cached; undefined ("none") when nothing matches.
check(map, path) ==
  IF map[path] # "unset" THEN map[path] ELSE fileType[path]

\* typeMap after sourceType.check(path, sourceFiles).
checked(map, path) ==
  IF map[path] = "unset" /\ fileType[path] # "none"
  THEN [map EXCEPT ![path] = fileType[path]]
  ELSE map

\* let callbackCounter = 1, set to 2 for a ts file by the handler of
\* createPDSGulpConfig.
callbackCounter(type) ==
  IF variant = "pds" /\ type = "ts" THEN 2 ELSE 1

\* A 'change' or 'add' event of the watcher: sourceUpdateHandler(path), with
\* an onComplete callback supplied. A stream is made for a recognised type
\* and its 'end' and 'error' listeners are attached.
sourceUpdateHandler(event, path) ==
  /\ variant \in {"gulp", "pds"}
  /\ streams[path] = <<>>
  /\ typeMap' = checked(typeMap, path)
  /\ streams' = IF check(typeMap, path) \in SourceTypes
                THEN [streams EXCEPT ![path] = <<callbackCounter(check(typeMap, path))>>]
                ELSE streams
  /\ hop' = [name |-> event, path |-> path]
  /\ completed' = <<>>
  /\ UNCHANGED <<variant, fileType>>
  /\ UNCHANGED exceptHandler

\* The compile stream of path emits 'end': checkComplete() decrements the
\* counter and calls onComplete(path) when it is no longer positive.
streamEnd(path) ==
  /\ streams[path] # <<>>
  /\ completed' = IF streams[path][1] - 1 <= 0 THEN <<path>> ELSE <<>>
  /\ streams' = [streams EXCEPT ![path] = <<>>]
  /\ hop' = [name |-> "end", path |-> path]
  /\ UNCHANGED <<variant, fileType, typeMap>>
  /\ UNCHANGED exceptHandler

\* The compile stream of path emits 'error' and never ends: the error is
\* logged.
streamError(path) ==
  /\ streams[path] # <<>>
  /\ completed' = <<>>
  /\ streams' = [streams EXCEPT ![path] = <<>>]
  /\ hop' = [name |-> "error", path |-> path]
  /\ UNCHANGED <<variant, fileType, typeMap>>
  /\ UNCHANGED exceptHandler

\* An 'unlink' event: the compiled file, if it exists, is removed and
\* onComplete(path) is called.
unlink(path, exists) ==
  /\ variant \in {"gulp", "pds"}
  /\ completed' = IF exists THEN <<path>> ELSE <<>>
  /\ hop' = [name |-> "unlink", path |-> path]
  /\ UNCHANGED <<variant, fileType, typeMap, streams>>
  /\ UNCHANGED exceptHandler

NextHandler ==
  \/ \E event \in {"change", "add"} : \E path \in Paths : sourceUpdateHandler(event, path)
  \/ \E path \in Paths : streamEnd(path)
  \/ \E path \in Paths : streamError(path)
  \/ \E path \in Paths : \E exists \in BOOLEAN : unlink(path, exists)

\* The watcher of createDevWatcherTask and the compile streams its handler
\* starts, at most one in flight for a file.
SpecHandler == InitHandler /\ [][NextHandler]_vars

\* C19: when the compile stream of a 'change' or 'add' event on a file of a
\* recognised type emits 'end', onComplete is invoked exactly once, with that
\* path; an event on a file of no recognised type starts no stream and invokes
\* nothing.
C19_OnCompleteOncePerEndedStream ==
  /\ hop.name = "end" => completed = <<hop.path>>
  /\ hop.name \in {"change", "add"}
     => /\ completed = <<>>
        /\ fileType[hop.path] = "none" => streams[hop.path] = <<>>

\* =================================================== findJsDependencyModules
\* Calls of findJsDependencyModules made in one run.
MaxCalls == 2

\* The module files of the project, a JSON file, and a name that resolves to
\* no absolute path (a built-in module).
JsFiles == {"/a.js", "/b.js", "/c.js"}
FilePaths == JsFiles \cup {"/d.json", "fs"}

\* jsPath.startsWith('/') and jsPath.endsWith('.json').
startsWithSlash(p) == p \in JsFiles \cup {"/d.json"}
endsWithJson(p) == p = "/d.json"

\* What resolveModule yields for the import, export-from and require
\* specifiers of each file, in source order; "" where it finds no file.
Graph(a, b, c) == [f \in JsFiles |-> IF f = "/a.js" THEN a ELSE IF f = "/b.js" THEN b ELSE c]

ImportGraphs ==
  { Graph(<<"/b.js">>, <<"/c.js">>, <<>>),
    Graph(<<"/b.js">>, <<"/a.js">>, <<"/c.js">>),
    Graph(<<"/a.js", "/b.js">>, <<"/c.js", "/c.js">>, <<"/a.js">>),
    Graph(<<"/b.js", "/c.js">>, <<"/c.js">>, <<"/d.json">>),
    Graph(<<"/c.js", "/b.js">>, <<"/c.js">>, <<"/d.json">>),
    Graph(<<"/d.json", "fs">>, <<"">>, <<"/b.js">>),
    Graph(<<"/b.js", "/c.js">>, <<"/c.js", "/a.js">>, <<"/a.js", "/b.js">>) }

Dependency(importFilePath, jsPath) ==
  [importFilePath |-> importFilePath, jsPath |-> jsPath]

RECURSIVE uniqFrom(_, _, _)
uniqFrom(result, k, kept) ==
  IF k > Len(result) THEN kept
  ELSE IF \E n \in 1..Len(kept) : kept[n].importFilePath = result[k].importFilePath
       THEN uniqFrom(result, k + 1, kept)
       ELSE uniqFrom(result, k + 1, Append(kept, result[k]))

\* lodash.uniqBy(result, dep => dep.importFilePath): the first entry of each
\* importFilePath, in order.
uniqBy(result) == uniqFrom(result, 1, <<>>)

\* The variant of the guard that does not look at the visited set.
skipped_ignoresVisited(jsPath, seen) ==
  ~startsWithSlash(jsPath) \/ endsWithJson(jsPath)

\* The guard of run (line 26): the path is not analysed.
skipped(jsPath, seen) ==
  ~startsWithSlash(jsPath) \/ endsWithJson(jsPath) \/ jsPath \in seen

\* fileCache.run('findJsDependencyModules', jsPath, fn): the value held for
\* jsPath if there is one, else the value fn computes, which is then held.
cached(jsPath) == jsPath \in DOMAIN fileCache

store(cache, jsPath, value) ==
  [p \in DOMAIN cache \cup {jsPath} |-> IF p = jsPath THEN value ELSE cache[p]]

\* this.run(jsPath) up to the first statement of the callback of
\* fileCache.run: either the call returns a value at once, or the file is read
\* and parsed and the traversal of its imports begins.
run(jsPath, seen, counts) ==
  IF skipped(jsPath, seen)
  THEN [returns |-> TRUE, value |-> <<>>, visited |-> seen, parsed |-> counts]
  ELSE IF cached(jsPath)
  THEN [returns |-> TRUE, value |-> fileCache[jsPath],
        visited |-> seen \cup {jsPath}, parsed |-> counts]
  ELSE [returns |-> FALSE, value |-> <<>>,
        visited |-> seen \cup {jsPath}, parsed |-> [counts EXCEPT ![jsPath] = @ + 1]]

Frame(jsPath) == [jsPath |-> jsPath, next |-> 1, result |-> <<>>]

InitFinder ==
  /\ imports \in ImportGraphs
  /\ stack = <<>>
  /\ visited = {}
  /\ parsed = [f \in JsFiles |-> 0]
  /\ fileCache = <<>>
  /\ returned = <<>>
  /\ fstatus = "idle"
  /\ fcalls = 0
  /\ called = ""
  /\ InitSetupVars
  /\ NoDeep /\ NoSteps /\ NoGlobal /\ NoFaults /\ NoDev /\ NoHandler

\* findJsDependencyModules(jsPath): new Finder().run(jsPath).
findJsDependencyModules(jsPath) ==
  /\ fstatus # "running"
  /\ stack = <<>>
  /\ fcalls < MaxCalls
  /\ fcalls' = fcalls + 1
  /\ called' = jsPath
  /\ LET r == run(jsPath, {}, [f \in JsFiles |-> 0])
     IN /\ visited' = r.visited
        /\ parsed' = r.parsed
        /\ IF r.returns
           THEN /\ stack' = <<>>
                /\ returned' = r.value
                /\ fstatus' = "returned"
           ELSE /\ stack' = <<Frame(jsPath)>>
                /\ returned' = <<>>
                /\ fstatus' = "running"
  /\ UNCHANGED <<imports, fileCache>>
  /\ UNCHANGED exceptFinder

\* record(importPath) for the next import of the file on top of the stack:
\* the module is resolved (an unresolved one throws out of every run in
\* progress), its entry is pushed and this.run(importFilePath) is called.
record ==
  /\ stack # <<>>
  /\ LET top == Len(stack)
         frame == stack[top]
     IN /\ frame.next <= Len(imports[frame.jsPath])
        /\ LET importFilePath == imports[frame.jsPath][frame.next]
               r == run(importFilePath, visited, parsed)
               dep == Dependency(importFilePath, frame.jsPath)
           IN IF importFilePath = ""
              THEN /\ stack' = <<>>
                   /\ fstatus' = "threw"
                   /\ UNCHANGED <<visited, parsed>>
              ELSE /\ visited' = r.visited
                   /\ parsed' = r.parsed
                   /\ fstatus' = fstatus
                   /\ IF r.returns
                      THEN stack' = [stack EXCEPT ![top].next = @ + 1,
                                                  ![top].result = Append(@, dep) \o r.value]
                      ELSE stack' = Append([stack EXCEPT ![top].next = @ + 1,
                                                         ![top].result = Append(@, dep)],
                                           Frame(importFilePath))
  /\ UNCHANGED <<imports, fileCache, returned, fcalls, called>>
  /\ UNCHANGED exceptFinder

\* The traversal of the file on top of the stack is over: the unique entries
\* are the value of the callback, fileCache holds them, and the caller pushes
\* them to its result.
return ==
  /\ stack # <<>>
  /\ LET top == Len(stack)
         frame == stack[top]
         uniqResult == uniqBy(frame.result)
     IN /\ frame.next > Len(imports[frame.jsPath])
        /\ fileCache' = store(fileCache, frame.jsPath, uniqResult)
        /\ IF top = 1
           THEN /\ stack' = <<>>
                /\ returned' = uniqResult
                /\ fstatus' = "returned"
           ELSE /\ stack' = [SubSeq(stack, 1, top - 1)
                               EXCEPT ![top - 1].result = @ \o uniqResult]
                /\ UNCHANGED <<returned, fstatus>>
  /\ UNCHANGED <<imports, visited, parsed, fcalls, called>>
  /\ UNCHANGED exceptFinder

NextFinder ==
  \/ \E jsPath \in FilePaths : findJsDependencyModules(jsPath)
  \/ record
  \/ return

\* Calls of findJsDependencyModules on a fixed set of files; run is
\* synchronous, so a call in progress takes its next step.
SpecFinder == InitFinder /\ [][NextFinder]_vars /\ WF_vars(record \/ return)

\* C20: every call of findJsDependencyModules ends (by returning or by the
\* exception of an unresolved import), within one call no file is read and
\* parsed twice, and a run on a path that is not absolute, ends with '.json'
\* or was visited before yields the empty list without a parse.
C20_TerminatesParsingEachFileOnce ==
  /\ (fstatus = "running") ~> (fstatus # "running")
  /\ [][/\ \A f \in JsFiles : parsed'[f] <= 1
        /\ (/\ stack # <<>>
            /\ stack[Len(stack)].next <= Len(imports[stack[Len(stack)].jsPath])
            /\ LET p == imports[stack[Len(stack)].jsPath][stack[Len(stack)].next]
               IN p # "" /\ (p \notin JsFiles \/ p \in visited))
           => /\ parsed' = parsed
              /\ Len(stack') = Len(stack)
              /\ Len(stack'[Len(stack)].result) = Len(stack[Len(stack)].result) + 1
        /\ (fcalls' = fcalls + 1 /\ stack' = <<>>)
           => \A f \in JsFiles : parsed'[f] = 0]_vars

\* A call on a graph with an import cycle has returned after it met the
\* visited file again.
C20_Witness ==
  /\ fstatus = "returned"
  /\ imports["/b.js"] = <<"/a.js">>
  /\ imports["/a.js"] = <<"/b.js">>
  /\ visited = {"/a.js", "/b.js"}
  /\ parsed["/a.js"] = 1
  /\ parsed["/b.js"] = 1
  /\ Len(returned) = 2

RECURSIVE reachFrom(_, _)
\* The files that import, export-from and require edges lead to from the
\* files of S, through n or fewer further files.
reachFrom(S, n) ==
  IF n = 0 THEN S
  ELSE reachFrom(S \cup UNION {{imports[f][k] : k \in 1..Len(imports[f])} :
                                f \in S \cap JsFiles},
                 n - 1)

\* The module files transitively reachable from jsPath, jsPath itself only
\* if an edge leads back to it; none from a path that run does not analyse.
Reachable(jsPath) ==
  IF jsPath \notin JsFiles THEN {}
  ELSE reachFrom({imports[jsPath][k] : k \in 1..Len(imports[jsPath])},
                 Cardinality(JsFiles))

\* C21: the value every call of findJsDependencyModules returns holds an
\* entry for each module file transitively reachable from its jsPath and no
\* two entries of one importFilePath, whatever was analysed before.
C21_ResultCoversReachableFiles ==
  fstatus = "returned"
  => /\ {returned[k].importFilePath : k \in 1..Len(returned)} = Reachable(called)
     /\ \A k, n \in 1..Len(returned) :
          returned[k].importFilePath = returned[n].importFilePath => k = n

====
